--------------------------- MODULE Spec2Model ---------------------------
(***************************************************************************)
(* A model of chat.js, the browser client of simplechat: the submit        *)
(* handler and its command grammar, send, the WebSocket handlers, the      *)
(* handler table, the notification throttle and the name cookie.           *)
(*                                                                         *)
(* A JavaScript string is a sequence of one-character strings, so that the *)
(* regular expression, JSON.stringify and JSON.parse are computed          *)
(* character by character.                                                 *)
(***************************************************************************)
EXTENDS Integers, Sequences, FiniteSets

VARIABLES
    readyState,         \* socket.readyState: "CONNECTING", "OPEN" or "CLOSED"
    cookie,             \* the browser's cookie "name": a JS value, Undefined when absent
    input,              \* input.value
    output,             \* the children of the output element, as (h3, p) pairs
    last_notification,  \* chat.js:9
    played,             \* the times at which notification.play() ran on this page
    now,                \* the wall clock, in ms
    sent,               \* the payloads this page's socket has transmitted
    received,           \* every payload delivered to socket.onmessage, oldest first
    called,             \* the functions invoked by socket.onmessage on this page
    uncaught            \* the exceptions that escaped a handler of this page

vars == <<readyState, cookie, input, output, last_notification, played, now,
          sent, received, called, uncaught>>

-----------------------------------------------------------------------------
(* JavaScript values.  Every value is a record [t, v]; v is the characters *)
(* of a string, the elements of an array, the [k, val] properties of an    *)
(* object in insertion order, <<n>> for the number n, <<>> otherwise.      *)

Undefined == [t |-> "undefined", v |-> <<>>]
Null      == [t |-> "null", v |-> <<>>]
Str(s)    == [t |-> "string", v |-> s]
Num(n)    == [t |-> "number", v |-> <<n>>]
Bool(b)   == [t |-> "boolean", v |-> <<b>>]
Arr(a)    == [t |-> "array", v |-> a]
Obj(p)    == [t |-> "object", v |-> p]
Prop(k, val) == [k |-> k, val |-> val]

\* The exceptions a handler can raise.
NoError == "none"

\* String literals of chat.js.
sMessage == <<"m","e","s","s","a","g","e">>
sName    == <<"n","a","m","e">>
sArgs    == <<"a","r","g","s">>
sKwargs  == <<"k","w","a","r","g","s">>
sLocal   == <<"<","l","o","c","a","l",">">>
sConnected == <<"C","o","n","n","e","c","t","e","d">>
sDisconnected == <<"D","i","s","c","o","n","n","e","c","t","e","d"," ",
                   "(","p","r","e","s","s"," ","r","e","f","r","e","s","h",")">>
sUnrecognised == <<"U","n","r","e","c","o","g","n","i","s","e","d"," ",
                   "c","o","m","m","a","n","d",":"," ">>

-----------------------------------------------------------------------------
(* JSON.stringify, as send uses it (chat.js:70).                           *)

Digits == <<"0","1","2","3","4","5","6","7","8","9">>
sNull  == <<"n","u","l","l">>
sTrue  == <<"t","r","u","e">>
sFalse == <<"f","a","l","s","e">>

RECURSIVE NatToString(_)
NatToString(n) ==
    IF n < 10 THEN <<Digits[n + 1]>>
    ELSE NatToString(n \div 10) \o <<Digits[(n % 10) + 1]>>

IntToString(n) == IF n < 0 THEN <<"-">> \o NatToString(-n) ELSE NatToString(n)

RECURSIVE QuoteChars(_)
QuoteChars(s) ==
    IF s = <<>> THEN <<>>
    ELSE (IF Head(s) \in {"\"", "\\"} THEN <<"\\", Head(s)>> ELSE <<Head(s)>>)
         \o QuoteChars(Tail(s))

Quote(s) == <<"\"">> \o QuoteChars(s) \o <<"\"">>

RECURSIVE Stringify(_)
RECURSIVE StringifyElems(_)
RECURSIVE StringifyProps(_, _)

\* The elements of an array: undefined is written as null.
StringifyElems(a) ==
    IF a = <<>> THEN <<>>
    ELSE (IF Head(a).t = "undefined" THEN sNull ELSE Stringify(Head(a)))
         \o (IF Len(a) > 1 THEN <<",">> ELSE <<>>)
         \o StringifyElems(Tail(a))

\* The properties of an object: a property whose value is undefined is left out.
StringifyProps(p, first) ==
    IF p = <<>> THEN <<>>
    ELSE IF Head(p).val.t = "undefined" THEN StringifyProps(Tail(p), first)
    ELSE (IF first THEN <<>> ELSE <<",">>)
         \o Quote(Head(p).k) \o <<":">> \o Stringify(Head(p).val)
         \o StringifyProps(Tail(p), FALSE)

Stringify(x) ==
    CASE x.t = "string"  -> Quote(x.v)
      [] x.t = "number"  -> IntToString(x.v[1])
      [] x.t = "boolean" -> IF x.v[1] THEN sTrue ELSE sFalse
      [] x.t = "null"    -> sNull
      [] x.t = "array"   -> <<"[">> \o StringifyElems(x.v) \o <<"]">>
      [] x.t = "object"  -> <<"{">> \o StringifyProps(x.v, TRUE) \o <<"}">>

-----------------------------------------------------------------------------
(* JSON.parse, as socket.onmessage uses it (chat.js:90).  A parse result   *)
(* is [ok, val, pos]: pos is the index of the first character not read.    *)
(* Numbers are integers; the escapes \b and \uXXXX are not modelled, and   *)
(* no payload of this model holds one.                                     *)

Fail == [ok |-> FALSE, val |-> Undefined, pos |-> 0]
Ok(val, pos) == [ok |-> TRUE, val |-> val, pos |-> pos]

Whitespace == {" ", "\t", "\n", "\r"}

RECURSIVE SkipWs(_, _)
SkipWs(s, i) ==
    IF i <= Len(s) /\ s[i] \in Whitespace THEN SkipWs(s, i + 1) ELSE i

\* s[i .. i + Len(w) - 1] = w
Literal(s, i, w) ==
    /\ i + Len(w) - 1 <= Len(s)
    /\ \A j \in 1..Len(w) : s[i + j - 1] = w[j]

Unescape(c) ==
    CASE c = "n" -> "\n"
      [] c = "t" -> "\t"
      [] c = "r" -> "\r"
      [] c = "f" -> "\f"
      [] OTHER   -> c

\* The characters of a string literal, from the character after its opening quote.
RECURSIVE ParseChars(_, _, _)
ParseChars(s, i, acc) ==
    IF i > Len(s) THEN Fail
    ELSE IF s[i] = "\"" THEN Ok(Str(acc), i + 1)
    ELSE IF s[i] \in {"\n", "\t", "\r", "\f"} THEN Fail
    ELSE IF s[i] = "\\" THEN
        IF i + 1 <= Len(s) /\ s[i + 1] \in {"\"", "\\", "/", "n", "t", "r", "f"}
        THEN ParseChars(s, i + 2, Append(acc, Unescape(s[i + 1])))
        ELSE Fail
    ELSE ParseChars(s, i + 1, Append(acc, s[i]))

DigitValue(c) == CHOOSE d \in 0..9 : Digits[d + 1] = c
IsDigit(c) == \E d \in 1..10 : Digits[d] = c

RECURSIVE ParseDigits(_, _, _)
ParseDigits(s, i, n) ==
    IF i <= Len(s) /\ IsDigit(s[i])
    THEN ParseDigits(s, i + 1, 10 * n + DigitValue(s[i]))
    ELSE Ok(Num(n), i)

\* -? (0 | [1-9][0-9]*), from the first digit
ParseNat(s, i) ==
    IF i > Len(s) \/ ~IsDigit(s[i]) THEN Fail
    ELSE IF s[i] = "0" THEN Ok(Num(0), i + 1)
    ELSE ParseDigits(s, i, 0)

ParseNumber(s, i) ==
    IF s[i] = "-"
    THEN LET r == ParseNat(s, i + 1)
         IN  IF r.ok THEN Ok(Num(-(r.val.v[1])), r.pos) ELSE Fail
    ELSE ParseNat(s, i)

HasKey(p, k) == \E i \in 1..Len(p) : p[i].k = k

\* Defining a property: a repeated key keeps its place and takes the new value.
SetProp(p, k, val) ==
    IF HasKey(p, k)
    THEN [i \in 1..Len(p) |-> IF p[i].k = k THEN Prop(k, val) ELSE p[i]]
    ELSE Append(p, Prop(k, val))

\* The value being read and the containers it is nested in: each container on
\* the stack is [t, v, k], an array or object with the elements or properties
\* read so far and, for an object, the key whose value is being read.
\* mode is "value" before a value, "key" before a key, and "after" behind the
\* value val.
RECURSIVE ParseRun(_, _, _, _, _)
ParseRun(s, i, st, mode, val) ==
    LET j   == SkipWs(s, i)
        top == st[Len(st)]
        pop == SubSeq(st, 1, Len(st) - 1)
        put(c) == Append(pop, c)
        c   == IF j <= Len(s) THEN s[j] ELSE ""
    IN  IF mode = "value" THEN
            IF c = "\"" THEN
                LET r == ParseChars(s, j + 1, <<>>)
                IN  IF r.ok THEN ParseRun(s, r.pos, st, "after", r.val) ELSE Fail
            ELSE IF c \in {"[", "{"} THEN
                LET e == SkipWs(s, j + 1)
                    t == IF c = "[" THEN "array" ELSE "object"
                IN  IF e <= Len(s) /\ s[e] = (IF c = "[" THEN "]" ELSE "}")
                    THEN ParseRun(s, e + 1, st, "after", [t |-> t, v |-> <<>>])
                    ELSE ParseRun(s, j + 1, Append(st, [t |-> t, v |-> <<>>, k |-> <<>>]),
                                  IF c = "[" THEN "value" ELSE "key", Undefined)
            ELSE LET r == IF Literal(s, j, sNull) THEN Ok(Null, j + 4)
                          ELSE IF Literal(s, j, sTrue) THEN Ok(Bool(TRUE), j + 4)
                          ELSE IF Literal(s, j, sFalse) THEN Ok(Bool(FALSE), j + 5)
                          ELSE IF c = "" THEN Fail
                          ELSE ParseNumber(s, j)
                 IN  IF r.ok THEN ParseRun(s, r.pos, st, "after", r.val) ELSE Fail
        ELSE IF mode = "key" THEN
            LET r == IF c = "\"" THEN ParseChars(s, j + 1, <<>>) ELSE Fail
                e == IF r.ok THEN SkipWs(s, r.pos) ELSE 0
            IN  IF r.ok /\ e <= Len(s) /\ s[e] = ":"
                THEN ParseRun(s, e + 1, put([top EXCEPT !.k = r.val.v]), "value", Undefined)
                ELSE Fail
        ELSE IF st = <<>> THEN
            IF c = "" THEN Ok(val, j) ELSE Fail
        ELSE LET v == IF top.t = "array" THEN Append(top.v, val)
                      ELSE SetProp(top.v, top.k, val)
             IN  IF c = "," THEN
                     ParseRun(s, j + 1, put([top EXCEPT !.v = v]),
                              IF top.t = "array" THEN "value" ELSE "key", Undefined)
                 ELSE IF c = (IF top.t = "array" THEN "]" ELSE "}")
                 THEN ParseRun(s, j + 1, pop, "after", [t |-> top.t, v |-> v])
                 ELSE Fail

\* JSON.parse(s): [ok, val]; ~ok is a SyntaxError.
JSONParse(s) == ParseRun(s, 1, <<>>, "value", Undefined)

-----------------------------------------------------------------------------
(* The conversions JavaScript applies to a value used as a string, as a    *)
(* condition, or as the object of a property read.                         *)

sUndefined == <<"u","n","d","e","f","i","n","e","d">>
sObjectObject == <<"[","o","b","j","e","c","t"," ","O","b","j","e","c","t","]">>

RECURSIVE ToString(_)
RECURSIVE Join(_)

\* Array.prototype.join(","): null and undefined elements give the empty string.
Join(a) ==
    IF a = <<>> THEN <<>>
    ELSE (IF Head(a).t \in {"undefined", "null"} THEN <<>> ELSE ToString(Head(a)))
         \o (IF Len(a) > 1 THEN <<",">> ELSE <<>>)
         \o Join(Tail(a))

ToString(x) ==
    CASE x.t = "string"    -> x.v
      [] x.t = "undefined" -> sUndefined
      [] x.t = "null"      -> sNull
      [] x.t = "number"    -> IntToString(x.v[1])
      [] x.t = "boolean"   -> IF x.v[1] THEN sTrue ELSE sFalse
      [] x.t = "array"     -> Join(x.v)
      [] x.t = "object"    -> sObjectObject

\* !x
Falsy(x) ==
    \/ x.t \in {"undefined", "null"}
    \/ x = Str(<<>>)
    \/ x = Num(0)
    \/ x = Bool(FALSE)

\* x[k] for a key k that no prototype defines, such as "name", "args" or "0":
\* [error, val].  Reading a property of undefined or null is a TypeError.
GetProp(x, k) ==
    IF x.t \in {"undefined", "null"} THEN [error |-> "TypeError", val |-> Undefined]
    ELSE IF x.t = "object" /\ HasKey(x.v, k)
    THEN [error |-> NoError, val |-> (CHOOSE q \in {x.v[i] : i \in 1..Len(x.v)} : q.k = k).val]
    ELSE [error |-> NoError, val |-> Undefined]

\* x[n] for an index n >= 0 of a value that is neither undefined nor null.
Index(x, n) ==
    IF x.t = "array" THEN (IF n < Len(x.v) THEN x.v[n + 1] ELSE Undefined)
    ELSE IF x.t = "string" THEN (IF n < Len(x.v) THEN Str(<<x.v[n + 1]>>) ELSE Undefined)
    ELSE GetProp(x, NatToString(n)).val

-----------------------------------------------------------------------------
(* command_match = /[/]([^ $]+)[ ]?([^$]+)?$/  (chat.js:7), applied by     *)
(* String.prototype.match: the leftmost match, each quantifier greedy,     *)
(* backtracking to shorter runs.  Inside a character class $ is the        *)
(* character itself; the last $ is the end of the input.                   *)

NoMatch == [matched |-> FALSE, command |-> <<>>, arg |-> Undefined]

\* Every character of text from index i on is in [^$].
NoDollar(text, i) == \A j \in i..Len(text) : text[j] # "$"

\* The length of the longest run of [^ $] that starts at index i.
RECURSIVE NameRun(_, _)
NameRun(text, i) ==
    IF i <= Len(text) /\ text[i] \notin {" ", "$"} THEN 1 + NameRun(text, i + 1) ELSE 0

\* ([^$]+)?$ from index i: the group takes the rest of the input, or is absent
\* when nothing is left.
RestMatch(text, i) ==
    IF i > Len(text) THEN [matched |-> TRUE, arg |-> Undefined]
    ELSE IF NoDollar(text, i) THEN [matched |-> TRUE, arg |-> Str(SubSeq(text, i, Len(text)))]
    ELSE [matched |-> FALSE, arg |-> Undefined]

\* [ ]?([^$]+)?$ from index i: with the space first, then without it.
TailMatch(text, i) ==
    LET with == IF i <= Len(text) /\ text[i] = " "
                THEN RestMatch(text, i + 1)
                ELSE [matched |-> FALSE, arg |-> Undefined]
    IN  IF with.matched THEN with ELSE RestMatch(text, i)

\* The slash at index i followed by a name of n characters, then shorter names.
RECURSIVE MatchName(_, _, _)
MatchName(text, i, n) ==
    IF n = 0 THEN NoMatch
    ELSE LET r == TailMatch(text, i + n + 1)
         IN  IF r.matched
             THEN [matched |-> TRUE, command |-> SubSeq(text, i + 1, i + n), arg |-> r.arg]
             ELSE MatchName(text, i, n - 1)

\* The leftmost index from i on at which the expression matches.
RECURSIVE MatchFrom(_, _)
MatchFrom(text, i) ==
    IF i > Len(text) THEN NoMatch
    ELSE LET m == IF text[i] = "/" THEN MatchName(text, i, NameRun(text, i + 1)) ELSE NoMatch
         IN  IF m.matched THEN m ELSE MatchFrom(text, i + 1)

\* command_match with ([^ $]*) for the name: a slash needs no name behind it.
command_match_star(text) ==
    LET m == MatchFrom(text, 1)
        empty == {i \in 1..Len(text) : text[i] = "/" /\ TailMatch(text, i + 1).matched}
        first == CHOOSE i \in empty : \A j \in empty : i <= j
    IN  IF m.matched \/ empty = {} THEN m
        ELSE [matched |-> TRUE, command |-> <<>>, arg |-> TailMatch(text, first + 1).arg]

\* text.match(command_match): matched is (match !== null), command is match[1],
\* arg is match[2].
command_match(text) == MatchFrom(text, 1)

-----------------------------------------------------------------------------
(* The functions of chat.js.                                               *)

\* The fewest milliseconds between two playbacks (chat.js:13).
THROTTLE_MS == 1000

\* play_notification that plays without recording when it played.
play_notification_no_update(t, last, log) ==
    IF (t - last) >= THROTTLE_MS
    THEN [last |-> last, played |-> Append(log, t)]
    ELSE [last |-> last, played |-> log]

\* play_notification that records every call, the suppressed ones too.
play_notification_every_call(t, last, log) ==
    IF (t - last) >= THROTTLE_MS
    THEN [last |-> t, played |-> Append(log, t)]
    ELSE [last |-> t, played |-> log]

\* play_notification() at time t: [last, played] are last_notification and
\* the playbacks afterwards.
play_notification(t, last, log) ==
    IF (t - last) >= THROTTLE_MS
    THEN [last |-> t, played |-> Append(log, t)]
    ELSE [last |-> last, played |-> log]

\* p.innerHTML = text: null gives the empty string, anything else its ToString.
InnerHTML(text) == IF text.t = "null" THEN <<>> ELSE ToString(text)

\* write_message that labels the entry with the name as it came, empty or not.
write_message_as_given(name, text, out) ==
    Append(out, [h3 |-> ToString(name), p |-> InnerHTML(text)])

\* write_message(name, text): the output element afterwards.
write_message(name, text, out) ==
    LET label == IF Falsy(name) THEN Str(sLocal) ELSE name
    IN  Append(out, [h3 |-> ToString(label), p |-> InnerHTML(text)])

\* send with the keyword arguments left out of the array it encodes.
send_no_kwargs(command, args, kwargs) ==
    Stringify(Arr(<<command, IF args = Undefined THEN Arr(<<>>) ELSE args>>))

\* The data send(command, args, kwargs) hands to socket.send.
send(command, args, kwargs) ==
    LET a == IF args = Undefined THEN Arr(<<>>) ELSE args
        k == IF kwargs = Undefined THEN Obj(<<>>) ELSE kwargs
    IN  Stringify(Arr(<<command, a, k>>))

\* socket.send that still transmits on a closed socket.
socket_send_closed(rs, data, wire) ==
    CASE rs = "CONNECTING" -> [error |-> "InvalidStateError", sent |-> wire]
      [] rs = "OPEN"       -> [error |-> NoError, sent |-> Append(wire, data)]
      [] rs = "CLOSED"     -> [error |-> NoError, sent |-> Append(wire, data)]

\* socket.send(data) in state rs: a connecting socket throws, an open one
\* transmits, a closed one discards the data.
socket_send(rs, data, wire) ==
    CASE rs = "CONNECTING" -> [error |-> "InvalidStateError", sent |-> wire]
      [] rs = "OPEN"       -> [error |-> NoError, sent |-> Append(wire, data)]
      [] rs = "CLOSED"     -> [error |-> NoError, sent |-> wire]

\* Cookies.get("name") and Cookies.set("name", value): the cookie holds a string.
CookiesGet(jar) == jar
CookiesSet(value) == Str(ToString(value))

\* The keys of Object.prototype that this model offers to the handler table.
sConstructor == <<"c","o","n","s","t","r","u","c","t","o","r">>
sToString    == <<"t","o","S","t","r","i","n","g">>
sValueOf     == <<"v","a","l","u","e","O","f">>
sProto       == <<"_","_","p","r","o","t","o","_","_">>
InheritedKeys == {sConstructor, sToString, sValueOf, sProto}

\* functions[key] (chat.js:20-30, 91): "message" and "name" are the table's own
\* entries; a key of Object.prototype is found on the prototype; anything else is
\* undefined.
functions(key) ==
    IF key \in {sMessage, sName} THEN [kind |-> "own", key |-> key]
    ELSE IF key \in InheritedKeys THEN [kind |-> "inherited", key |-> key]
    ELSE [kind |-> "undefined", key |-> key]

\* What a handler leaves behind: the page-visible state, the functions called and
\* the exception that escaped ("none" when the handler returned).
Effect(out, jar, last, log, calls, error) ==
    [output |-> out, cookie |-> jar, last |-> last, played |-> log,
     called |-> calls, error |-> error]

\* functions.message(obj) at time t (chat.js:21-26).
message(obj, t, out, jar, last, log, calls) ==
    LET pn   == play_notification(t, last, log)
        args == GetProp(obj, sArgs).val
        did  == Append(calls, [key |-> sMessage, obj |-> obj])
    IN  IF args.t \in {"undefined", "null"}
        THEN Effect(out, jar, pn.last, pn.played, did, "TypeError")
        ELSE Effect(write_message(Index(args, 0), Index(args, 1), out),
                    jar, pn.last, pn.played, did, NoError)

\* functions.name that keeps the first name it was given.
name_keep_first(obj, out, jar, last, log, calls) ==
    LET args == GetProp(obj, sArgs).val
        did  == Append(calls, [key |-> sName, obj |-> obj])
    IN  IF args.t \in {"undefined", "null"}
        THEN Effect(out, jar, last, log, did, "TypeError")
        ELSE Effect(out, IF jar = Undefined THEN CookiesSet(Index(args, 0)) ELSE jar,
                    last, log, did, NoError)

\* functions.name(obj) (chat.js:27-29).
name(obj, out, jar, last, log, calls) ==
    LET args == GetProp(obj, sArgs).val
        did  == Append(calls, [key |-> sName, obj |-> obj])
    IN  IF args.t \in {"undefined", "null"}
        THEN Effect(out, jar, last, log, did, "TypeError")
        ELSE Effect(out, CookiesSet(Index(args, 0)), last, log, did, NoError)

\* func(obj) for a func found on Object.prototype, called with no this value:
\* Object and toString return, valueOf throws, and __proto__ is no function.
inherited(key, obj, out, jar, last, log, calls) ==
    LET did == Append(calls, [key |-> key, obj |-> obj])
    IN  CASE key \in {sConstructor, sToString} -> Effect(out, jar, last, log, did, NoError)
          [] key = sValueOf -> Effect(out, jar, last, log, did, "TypeError")
          [] OTHER -> Effect(out, jar, last, log, calls, "TypeError")

\* socket.onmessage(e) with e.data = data at time t (chat.js:89-97).
onmessage(data, t, out, jar, last, log, calls) ==
    LET parsed == JSONParse(data)
        obj    == parsed.val
        nm     == GetProp(obj, sName)
        func   == functions(ToString(nm.val))
    IN  IF ~parsed.ok THEN Effect(out, jar, last, log, calls, "SyntaxError")
        ELSE IF nm.error # NoError THEN Effect(out, jar, last, log, calls, nm.error)
        ELSE IF func.kind = "undefined"
        THEN Effect(write_message(Null, Str(sUnrecognised \o data \o <<".">>), out),
                    jar, last, log, calls, NoError)
        ELSE IF func.key = sMessage THEN message(obj, t, out, jar, last, log, calls)
        ELSE IF func.key = sName THEN name(obj, out, jar, last, log, calls)
        ELSE inherited(func.key, obj, out, jar, last, log, calls)

\* onsubmit that passes the text and the argument themselves, not arrays of them.
onsubmit_bare(text) ==
    LET match == command_match(text)
    IN  IF ~match.matched
        THEN send(Str(sMessage), Str(text), Undefined)
        ELSE send(Str(match.command), match.arg, Undefined)

\* The data document.forms[0].onsubmit sends for the text of the input field
\* (chat.js:35-47).
onsubmit(text) ==
    LET match == command_match(text)
    IN  IF ~match.matched
        THEN send(Str(sMessage), Arr(<<Str(text)>>), Undefined)
        ELSE send(Str(match.command), Arr(<<match.arg>>), Undefined)

Thrown(log, error) == IF error = NoError THEN log ELSE Append(log, error)

\* socket.onopen that sends the name whether or not the cookie holds one.
onopen_always(nm, wire) ==
    socket_send("OPEN", send(Str(sName), Arr(<<nm>>), Undefined), wire).sent

\* What socket.onopen transmits for the cookie value nm (chat.js:79-82).
onopen_send(nm, wire) ==
    IF nm # Undefined
    THEN socket_send("OPEN", send(Str(sName), Arr(<<nm>>), Undefined), wire).sent
    ELSE wire

-----------------------------------------------------------------------------
(* Bounds and inputs.                                                      *)

MaxLen      == 4      \* the longest text of SpecGrammar
MaxSubmits  == 2      \* submissions of SpecGrammar
MaxInbound  == 2      \* payloads delivered in SpecInbound
MaxFrames   == 2      \* frames sent in SpecCodec
MaxEvents   == 3      \* of Spec: payloads delivered, plus the frames sent and the
                      \* exceptions raised on the current page
MaxElapsed  == 1500   \* ms of clock the model lets pass
StartTime   == 5000   \* the clock at the first page load, in ms

Alphabet == {"a", " ", "/", "$"}
Strings(n) == UNION {[1..k -> Alphabet] : k \in 0..n}

\* Every text of at most MaxLen characters.
Texts == Strings(MaxLen)

sA == <<"a">>
sB == <<"b">>
sPing == <<"p","i","n","g">>

\* What the user types in the page's specification: a plain message and the
\* command /name a.
Typed == { <<"a">>, <<"/">> \o sName \o <<" ","a">> }

Frame(n, args) == Obj(<<Prop(sName, n), Prop(sArgs, Arr(args)), Prop(sKwargs, Obj(<<>>))>>)

\* Payloads the peer delivers: text that is no JSON, JSON that is no frame, frames
\* shaped as send shapes them, and frames shaped as socket.onmessage reads them.
NotJSON == { <<"a">>, <<"{">> }
NotFrames == { Null, Num(5), Str(sA), Arr(<<>>), Arr(<<Str(sPing), Arr(<<>>)>>) }
ArrayFrames ==
    { Arr(<<Str(sMessage), Arr(<<Str(sA), Str(sB)>>), Obj(<<>>)>>),
      Arr(<<Str(sName), Arr(<<Str(sA)>>), Obj(<<>>)>>),
      Arr(<<Str(sPing), Arr(<<>>), Obj(<<>>)>>) }
ObjectFrames ==
    { Frame(Str(sMessage), <<Str(sA), Str(sB)>>),
      Frame(Str(sMessage), <<Str(<<>>), Str(sB)>>),
      Frame(Str(sMessage), <<Str(sLocal), Str(sB)>>),
      Frame(Str(sName), <<Str(sA)>>),
      Frame(Str(sName), <<Str(sB)>>),
      Frame(Str(sPing), <<>>),
      Frame(Str(sConstructor), <<>>),
      Frame(Str(sToString), <<>>),
      Frame(Str(sValueOf), <<>>),
      Frame(Str(sProto), <<>>),
      Obj(<<Prop(sName, Str(sMessage))>>),
      Obj(<<Prop(sName, Str(sName))>>) }
Inbound ==
    NotJSON \cup {Stringify(x) : x \in NotFrames \cup ArrayFrames \cup ObjectFrames}

\* The payloads the peer delivers in the page's specification: a message, two
\* names, an unregistered command and text that is no JSON.
InboundFew ==
    { Stringify(Frame(Str(sMessage), <<Str(sA), Str(sB)>>)),
      Stringify(Frame(Str(sName), <<Str(sA)>>)),
      Stringify(Frame(Str(sName), <<Str(sB)>>)),
      Stringify(Frame(Str(sPing), <<>>)),
      <<"a">> }

Ticks == {500, 1500}

Range(q) == {q[i] : i \in 1..Len(q)}

-----------------------------------------------------------------------------
(* The page.                                                               *)

\* The page after its script has run (chat.js:5-9, 74), at time t with cookie jar.
Load(t, jar, log) ==
    /\ readyState = "CONNECTING"
    /\ cookie = jar
    /\ input = <<>>
    /\ output = <<>>
    /\ last_notification = 0
    /\ played = <<>>
    /\ now = t
    /\ sent = <<>>
    /\ received = log
    /\ called = <<>>
    /\ uncaught = <<>>

Init == Load(StartTime, Undefined, <<>>)

\* onsubmit that stores the name itself when the command is name.
SubmitText_persist(text) ==
    LET pn == play_notification(now, last_notification, played)
        tx == socket_send(readyState, onsubmit(text), sent)
        match == command_match(text)
    IN  /\ last_notification' = pn.last
        /\ played' = pn.played
        /\ input' = <<>>
        /\ sent' = tx.sent
        /\ uncaught' = Thrown(uncaught, tx.error)
        /\ cookie' = IF match.matched /\ match.command = sName
                     THEN CookiesSet(match.arg) ELSE cookie
        /\ UNCHANGED <<readyState, output, now, received, called>>

\* document.forms[0].onsubmit (chat.js:32-48) with text in the input field.
SubmitText(text) ==
    LET pn == play_notification(now, last_notification, played)
        tx == socket_send(readyState, onsubmit(text), sent)
    IN  /\ last_notification' = pn.last
        /\ played' = pn.played
        /\ input' = <<>>
        /\ sent' = tx.sent
        /\ uncaught' = Thrown(uncaught, tx.error)
        /\ UNCHANGED <<readyState, cookie, output, now, received, called>>

\* The user submits what the input field holds.
Submit == SubmitText(input)

\* The user types text into the empty input field and submits it.
TypeAndSubmit(text) == input = <<>> /\ SubmitText(text)

\* socket.onopen that writes nothing to the transcript.
OnOpen_silent ==
    /\ readyState = "CONNECTING"
    /\ readyState' = "OPEN"
    /\ sent' = onopen_send(CookiesGet(cookie), sent)
    /\ UNCHANGED <<cookie, input, output, last_notification, played, now, received,
                   called, uncaught>>

\* socket.onopen (chat.js:76-83).
OnOpen ==
    LET nm == CookiesGet(cookie)
    IN  /\ readyState = "CONNECTING"
        /\ readyState' = "OPEN"
        /\ output' = write_message(Null, Str(sConnected), output)
        /\ sent' = onopen_send(nm, sent)
        /\ UNCHANGED <<cookie, input, last_notification, played, now, received,
                       called, uncaught>>

\* socket.onclose (chat.js:85-87): the connection failed or was closed.
OnClose ==
    /\ readyState \in {"CONNECTING", "OPEN"}
    /\ readyState' = "CLOSED"
    /\ output' = write_message(Null, Str(sDisconnected), output)
    /\ UNCHANGED <<cookie, input, last_notification, played, now, sent, received,
                   called, uncaught>>

\* socket.onmessage (chat.js:89-97) for a payload the peer sent.
OnMessage(data) ==
    LET e == onmessage(data, now, output, cookie, last_notification, played, called)
    IN  /\ readyState = "OPEN"
        /\ received' = Append(received, data)
        /\ output' = e.output
        /\ cookie' = e.cookie
        /\ last_notification' = e.last
        /\ played' = e.played
        /\ called' = e.called
        /\ uncaught' = Thrown(uncaught, e.error)
        /\ UNCHANGED <<readyState, input, now, sent>>

\* Time passes.
Tick(d) ==
    /\ now + d <= StartTime + MaxElapsed
    /\ now' = now + d
    /\ UNCHANGED <<readyState, cookie, input, output, last_notification, played,
                   sent, received, called, uncaught>>

\* The user refreshes the page: the script runs again; the cookie stays.
Reload ==
    /\ readyState = "CLOSED"
    /\ readyState' = "CONNECTING"
    /\ input' = <<>>
    /\ output' = <<>>
    /\ last_notification' = 0
    /\ played' = <<>>
    /\ sent' = <<>>
    /\ called' = <<>>
    /\ uncaught' = <<>>
    /\ UNCHANGED <<cookie, now, received>>

\* The events Spec counts against MaxEvents.
Events == Len(received) + Len(sent) + Len(uncaught)

Next ==
    \/ \E text \in Typed : Events < MaxEvents /\ TypeAndSubmit(text)
    \/ OnOpen
    \/ OnClose
    \/ \E data \in InboundFew : Events < MaxEvents /\ OnMessage(data)
    \/ \E d \in Ticks : Tick(d)
    \/ Reload

Spec == Init /\ [][Next]_vars

\* One page load from the script's run to the end of its connection: the page
\* is not refreshed.
NextPage ==
    \/ \E text \in Typed : Events < MaxEvents /\ TypeAndSubmit(text)
    \/ OnOpen
    \/ OnClose
    \/ \E data \in InboundFew : Events < MaxEvents /\ OnMessage(data)
    \/ \E d \in Ticks : Tick(d)

SpecPage == Init /\ [][NextPage]_vars

\* The page with every payload of Inbound delivered, the clock standing still.
NextInbound ==
    \/ OnOpen
    \/ \E data \in Inbound : Len(received) < MaxInbound /\ OnMessage(data)
    \/ OnClose

SpecInbound == Init /\ [][NextInbound]_vars

\* The page with any text of Texts in its input field when the user submits.
InitGrammar ==
    /\ readyState = "CONNECTING"
    /\ cookie = Undefined
    /\ input \in Texts
    /\ output = <<>>
    /\ last_notification = 0
    /\ played = <<>>
    /\ now = StartTime
    /\ sent = <<>>
    /\ received = <<>>
    /\ called = <<>>
    /\ uncaught = <<>>

NextGrammar ==
    \/ OnOpen
    \/ Len(sent) + Len(uncaught) < MaxSubmits /\ Submit
    \/ OnClose

SpecGrammar == InitGrammar /\ [][NextGrammar]_vars

\* The names the cookie can hold when the page loads: none, a name, the empty
\* name.
StoredNames == {Undefined, Str(sA), Str(<<>>)}

\* The page loaded with any of StoredNames in the cookie and any text of Texts
\* in its input field.
InitTransport ==
    /\ readyState = "CONNECTING"
    /\ cookie \in StoredNames
    /\ input \in Texts
    /\ output = <<>>
    /\ last_notification = 0
    /\ played = <<>>
    /\ now = StartTime
    /\ sent = <<>>
    /\ received = <<>>
    /\ called = <<>>
    /\ uncaught = <<>>

SpecTransport == InitTransport /\ [][NextGrammar]_vars

\* Names, positional arguments and keyword arguments of JSON-representable
\* values: strings (one with a quote and a backslash), a number, null, a nested
\* array and a nested object.
sQuoted == <<"\"", "\\">>
FrameNames == {Str(sMessage), Str(sName), Str(sPing)}
FrameArgs ==
    { Arr(<<>>),
      Arr(<<Str(sA), Str(sQuoted)>>),
      Arr(<<Num(5), Null, Arr(<<Bool(TRUE)>>)>>) }
FrameKwargs ==
    { Obj(<<>>),
      Obj(<<Prop(sA, Str(sB)), Prop(sB, Obj(<<Prop(sA, Arr(<<>>))>>))>>) }

\* Some caller runs send(command, args, kwargs) (chat.js:63-72).
SendFrame(command, args, kwargs) ==
    LET tx == socket_send(readyState, send(command, args, kwargs), sent)
    IN  /\ sent' = tx.sent
        /\ uncaught' = Thrown(uncaught, tx.error)
        /\ UNCHANGED <<readyState, cookie, input, output, last_notification, played,
                       now, received, called>>

\* The peer echoes the frame it has not echoed yet.
Echo ==
    /\ Len(received) < Len(sent)
    /\ OnMessage(sent[Len(received) + 1])

\* The page's frames built by send, each echoed to socket.onmessage before the
\* next is sent.
NextCodec ==
    \/ OnOpen
    \/ \E c \in FrameNames, a \in FrameArgs, k \in FrameKwargs :
           /\ Len(sent) + Len(uncaught) < MaxFrames
           /\ Len(received) = Len(sent)
           /\ SendFrame(c, a, k)
    \/ Echo
    \/ OnClose

SpecCodec == Init /\ [][NextCodec]_vars

-----------------------------------------------------------------------------
(* Inbound payloads (SpecInbound).                                         *)

Last(q) == q[Len(q)]

\* needle occurs in hay.
Contains(hay, needle) ==
    \E i \in 0..(Len(hay) - Len(needle)) :
        \A j \in 1..Len(needle) : hay[i + j] = needle[j]

\* The step delivers one payload to socket.onmessage.
Delivered == received' # received

\* The step appends one entry, labelled <local>, whose text holds the payload.
Diagnosed(data) ==
    /\ Len(output') = Len(output) + 1
    /\ SubSeq(output', 1, Len(output)) = output
    /\ Last(output').h3 = sLocal
    /\ Contains(Last(output').p, data)

\* A 3-element array whose first element is a string.
IsFrameArray(x) == x.t = "array" /\ Len(x.v) = 3 /\ x.v[1].t = "string"

\* data is no JSON, or JSON that is no such array.
Malformed(data) == ~JSONParse(data).ok \/ ~IsFrameArray(JSONParse(data).val)

\* C1: every payload that is not valid JSON, or whose decoded value is not a
\* 3-element array with a string first element, raises no unhandled exception
\* and appends one diagnostic transcript entry containing the raw payload.
C1_MalformedDiagnosed ==
    [][(Delivered /\ Malformed(Last(received')))
        => (uncaught' = uncaught /\ Diagnosed(Last(received')))]_vars

\* The name of a decodable frame: the first element of a frame shaped as an
\* array, the property "name" of one shaped as an object.
FrameName(x) ==
    IF IsFrameArray(x) THEN x.v[1]
    ELSE IF x.t = "object" THEN GetProp(x, sName).val
    ELSE Undefined

\* data decodes to a frame whose name is a string other than "message" and "name".
Unregistered(data) ==
    LET r == JSONParse(data)
    IN  /\ r.ok
        /\ FrameName(r.val).t = "string"
        /\ FrameName(r.val).v \notin {sMessage, sName}

\* C2: every decodable frame whose name is a string other than "message" and
\* "name", the keys of Object.prototype included, appends exactly one transcript
\* entry containing the raw payload and invokes no handler: no function is
\* called, no sound is played and the cookie is unchanged.
C2_UnregisteredDiagnosed ==
    [][(Delivered /\ Unregistered(Last(received')))
        => /\ Diagnosed(Last(received'))
           /\ called' = called
           /\ played' = played
           /\ cookie' = cookie]_vars

-----------------------------------------------------------------------------
(* send against socket.onmessage (SpecCodec).                              *)

\* The frames send can have built data from.
BuiltFrom(data) ==
    {f \in FrameNames \X FrameArgs \X FrameKwargs : send(f[1], f[2], f[3]) = data}

\* What socket.onmessage reads of a decoded value: its name and its arguments.
DecodedName(x)   == GetProp(x, sName).val
DecodedArgs(x)   == GetProp(x, sArgs).val
DecodedKwargs(x) == GetProp(x, sKwargs).val

-----------------------------------------------------------------------------
(* The input grammar (SpecGrammar).                                        *)

\* The payload of the frame (command, args, {}).
FrameData(command, args) == Stringify(Arr(<<Str(command), Arr(args), Obj(<<>>)>>))

\* The step is a submission of the input field's text on an open connection.
Submitted == Submit /\ readyState = "OPEN"

LeadingSlash(text) == text # <<>> /\ text[1] = "/"

\* C4: every text that does not begin with a slash, one with a slash in the
\* middle included, is sent whole as ("message", [text], {}).
C4_PlainTextIsMessage ==
    [][(Submitted /\ ~LeadingSlash(input))
        => sent' = Append(sent, FrameData(sMessage, <<Str(input)>>))]_vars

\* The index of the first space of text, 0 when it has none.
FirstSpace(text) ==
    IF \E i \in 1..Len(text) : text[i] = " "
    THEN CHOOSE i \in 1..Len(text) : text[i] = " " /\ \A j \in 1..(i - 1) : text[j] # " "
    ELSE 0

\* text is '/' + C + ' ' + R with C a non-empty run of non-space characters and
\* R non-empty.
CommandWithArg(text) ==
    /\ LeadingSlash(text)
    /\ FirstSpace(text) > 2
    /\ FirstSpace(text) < Len(text)

\* C5: the text '/' + C + ' ' + R is sent as (C, [R], {}).
C5_CommandWithArgument ==
    [][(Submitted /\ CommandWithArg(input))
        => sent' = Append(sent,
                FrameData(SubSeq(input, 2, FirstSpace(input) - 1),
                          <<Str(SubSeq(input, FirstSpace(input) + 1, Len(input)))>>))]_vars

\* text is '/' + C with C a non-empty run of non-space characters.
CommandAlone(text) ==
    /\ LeadingSlash(text)
    /\ Len(text) > 1
    /\ FirstSpace(text) = 0

\* C6: the text '/' + C is sent with command C, the one argument absent
\* (undefined in memory, null on the wire) and empty kwargs.
C6_CommandWithoutArgument ==
    [][(Submitted /\ CommandAlone(input))
        => sent' = Append(sent, FrameData(SubSeq(input, 2, Len(input)), <<Undefined>>))]_vars

\* text is a slash followed by nothing but spaces.
SlashOnly(text) ==
    /\ LeadingSlash(text)
    /\ \A i \in 2..Len(text) : text[i] = " "

\* C7: a slash followed by no non-space character does not match the grammar and
\* is sent whole as ("message", [text], {}).
C7_SlashAloneIsMessage ==
    [][(Submitted /\ SlashOnly(input))
        => /\ ~command_match(input).matched
           /\ sent' = Append(sent, FrameData(sMessage, <<Str(input)>>))]_vars

\* The text "/ " has been submitted and sent as a message.
C7_Witness ==
    /\ readyState = "OPEN"
    /\ input = <<>>
    /\ sent = <<FrameData(sMessage, <<Str(<<"/", " ">>)>>)>>

-----------------------------------------------------------------------------
(* The connection, the cookie and the throttle (Spec).                     *)

\* The step is the connection entering OPEN.
Opened == readyState = "CONNECTING" /\ readyState' = "OPEN"

ConnectedEntry == [h3 |-> sLocal, p |-> sConnected]

\* C8: when the connection enters OPEN, a "Connected" entry is appended and, if
\* and only if a name cookie is present, exactly one frame ("name", [cookie], {})
\* is transmitted; nothing is transmitted before the connection is open, so that
\* frame is the first of its connection and stays the first.
C8_NameAnnouncedFirst ==
    [][/\ readyState' = "CONNECTING" => sent' = <<>>
       /\ Opened =>
            /\ output' = Append(output, ConnectedEntry)
            /\ sent' = IF cookie = Undefined THEN <<>>
                       ELSE <<FrameData(sName, <<cookie>>)>>
       /\ (sent # <<>> /\ sent' # <<>>) => sent'[1] = sent[1]]_vars

\* On a page loaded with a stored name (none of its handlers has been called), a
\* submission made while connecting threw and transmitted nothing, and the name
\* frame went out at the open.
C8_Witness ==
    /\ readyState = "OPEN"
    /\ cookie = Str(sA)
    /\ called = <<>>
    /\ uncaught = <<"InvalidStateError">>
    /\ output = <<ConnectedEntry>>
    /\ sent = <<FrameData(sName, <<Str(sA)>>)>>

\* The first argument of the name event x, Undefined when x is none: a name
\* event is a decoded frame that socket.onmessage hands to functions.name, with
\* a string as its first argument.
NameOf(x) ==
    IF /\ x.t = "object"
       /\ GetProp(x, sName).val = Str(sName)
       /\ GetProp(x, sArgs).val.t = "array"
       /\ Index(GetProp(x, sArgs).val, 0).t = "string"
    THEN Index(GetProp(x, sArgs).val, 0)
    ELSE Undefined

IsNameEvent(data) == NameOf(JSONParse(data).val) # Undefined

\* The first argument of the name event received last, Undefined when none was.
RECURSIVE LastName(_)
LastName(log) ==
    IF log = <<>> THEN Undefined
    ELSE LET nm == NameOf(JSONParse(Last(log)).val)
         IN  IF nm # Undefined THEN nm ELSE LastName(SubSeq(log, 1, Len(log) - 1))

\* C9: across inbound events and page loads, once a name event has been
\* received the cookie holds the first argument of the name event received
\* last, and the next connection that opens sends ("name", [that value], {}).
C9_CookieHoldsLastName ==
    [][LET last == LastName(received')
       IN  /\ last # Undefined => cookie' = last
           /\ (Opened /\ last # Undefined) => sent' = <<FrameData(sName, <<last>>)>>]_vars

\* Two name events, a and then b, were received; the page was loaded again and
\* its connection announced b.
C9_Witness ==
    /\ Len(received) = 2
    /\ IsNameEvent(received[1]) /\ IsNameEvent(received[2])
    /\ LastName(received) = Str(sB)
    /\ LastName(<<received[1]>>) = Str(sA)
    /\ readyState = "OPEN"
    /\ called = <<>>
    /\ cookie = Str(sB)
    /\ sent = <<FrameData(sName, <<Str(sB)>>)>>

\* C10: with submissions and inbound message events interleaved under a clock
\* that never runs backwards, two successive playbacks are at least 1000 ms
\* apart, whichever of the two handlers caused each.
C10_PlaybacksApart ==
    \A i \in 1..(Len(played) - 1) : played[i + 1] - played[i] >= THROTTLE_MS

\* A submission and two message events have asked for the sound: it played for
\* the first of them and, 1500 ms later, for the last, and not in between.
C10_Witness ==
    /\ played = <<StartTime, StartTime + 1500>>
    /\ now = StartTime + 1500
    /\ Len(sent) = 1
    /\ Len(called) = 2
    /\ \A i \in 1..2 : called[i].key = sMessage
    /\ Len(output) = 3

-----------------------------------------------------------------------------
(* One page load (SpecPage).                                               *)

DisconnectedEntry == [h3 |-> sLocal, p |-> sDisconnected]

\* How many entries of the transcript out are the entry e.
Count(out, e) == Cardinality({i \in 1..Len(out) : out[i] = e})

\* The step is the connection entering CLOSED.
Closed == readyState # "CLOSED" /\ readyState' = "CLOSED"

\* C11: when the connection enters CLOSED one "Disconnected" entry is appended,
\* and from then on, for as long as the page lives, the connection stays CLOSED
\* (the one socket is neither CONNECTING nor OPEN again), the transcript holds
\* that one "Disconnected" entry and no frame is transmitted.
C11_NoRecovery ==
    [][/\ Closed => output' = Append(output, DisconnectedEntry)
       /\ readyState = "CLOSED" =>
            /\ readyState' = "CLOSED"
            /\ sent' = sent
            /\ Count(output', DisconnectedEntry) = 1]_vars

\* The connection opened, carried one submission and closed; 1500 ms later the
\* user submitted again: the sound played, nothing was thrown and no second frame
\* went out.
C11_Witness ==
    /\ readyState = "CLOSED"
    /\ output = <<ConnectedEntry, DisconnectedEntry>>
    /\ played = <<StartTime, StartTime + 1500>>
    /\ called = <<>>
    /\ uncaught = <<>>
    /\ Len(sent) = 1

\* The step is a submission of some text the user typed.
UserSubmits == \E text \in Typed : TypeAndSubmit(text)

\* C12: every submission made while the connection is not OPEN (CONNECTING or
\* CLOSED) appends a transcript entry that tells the user of the failed
\* transmission, and lets no exception escape the submit handler.
C12_FailureSurfaced ==
    [][(UserSubmits /\ readyState # "OPEN")
        => (Len(output') = Len(output) + 1 /\ uncaught' = uncaught)]_vars

\* The step runs functions.message.
MessageCalled == Len(called') = Len(called) + 1 /\ Last(called').key = sMessage

\* The step calls play_notification: the two callers are the submit handler
\* (chat.js:33) and functions.message (chat.js:22).
PlayCalled == UserSubmits \/ MessageCalled

\* No sound has played on this page yet, or the last one played at least
\* THROTTLE_MS ago.
Due == played = <<>> \/ now - Last(played) >= THROTTLE_MS

\* C13: a call of play_notification plays the sound if and only if at least
\* 1000 ms have passed since the last call that played (or none has played); a
\* suppressed call leaves last_notification as it was, so calls spaced less than
\* 1000 ms apart do not put off the next playback; nothing else plays the sound.
C13_PlaysIffDue ==
    [][/\ PlayCalled =>
            /\ (played' = Append(played, now)) <=> Due
            /\ ~Due => (played' = played /\ last_notification' = last_notification)
       /\ played' # played => PlayCalled]_vars

\* Three message events 500 ms apart: the sound played for the first, was
\* suppressed for the second and played again for the third, 1000 ms after the
\* first.
C13_Witness ==
    /\ readyState = "OPEN"
    /\ now = StartTime + 1000
    /\ played = <<StartTime, StartTime + 1000>>
    /\ last_notification = StartTime + 1000
    /\ Len(called) = 3
    /\ \A i \in 1..3 : called[i].key = sMessage
    /\ sent = <<>>
    /\ uncaught = <<>>

\* C15 as claimed: the connection enters CLOSED from OPEN only, and every
\* "Disconnected" entry of the transcript has a "Connected" entry before it.
C15_ConnectedFirst ==
    /\ readyState = "CLOSED" => Count(output, ConnectedEntry) > 0
    /\ \A i \in 1..Len(output) :
           output[i] = DisconnectedEntry
               => \E j \in 1..(i - 1) : output[j] = ConnectedEntry

\* The moves of socket.readyState.
Moves ==
    { <<"CONNECTING", "OPEN">>, <<"OPEN", "CLOSED">>, <<"CONNECTING", "CLOSED">> }

\* C15 as amended: the connection moves CONNECTING, OPEN, CLOSED, or from
\* CONNECTING straight to CLOSED when the connection attempt fails, and never
\* back; the "Disconnected" entry of a connection that was open comes after its
\* "Connected" entry, which is the first of the transcript, and that of a
\* connection that never opened is the only entry of the transcript.
C15_ForwardOnly ==
    [][/\ readyState' # readyState => <<readyState, readyState'>> \in Moves
       /\ (readyState = "OPEN" /\ readyState' = "CLOSED")
            => /\ output # <<>> /\ output[1] = ConnectedEntry
               /\ output' = Append(output, DisconnectedEntry)
       /\ (readyState = "CONNECTING" /\ readyState' = "CLOSED")
            => output' = <<DisconnectedEntry>>]_vars

\* The connection attempt failed after the user had submitted a text: the close
\* handler ran on a connection whose open handler never did.
C15_Witness ==
    /\ readyState = "CLOSED"
    /\ output = <<DisconnectedEntry>>
    /\ uncaught = <<"InvalidStateError">>
    /\ sent = <<>>
    /\ received = <<>>

\* The step delivers a frame named "name".
NameDelivered ==
    /\ Delivered
    /\ FrameName(JSONParse(Last(received')).val) = Str(sName)

\* C17: the cookie changes only in a step that delivers an inbound name event:
\* a submission (of "/name a" too), the open, the close, an inbound message event
\* and an unrecognised frame all leave it as it was.
C17_CookieOnlyByNameEvent ==
    [][/\ cookie' # cookie => NameDelivered
       /\ (UserSubmits \/ Opened \/ Closed \/ MessageCalled) => cookie' = cookie]_vars

\* The user has typed /name a and the frame has gone out; the peer has sent
\* nothing back and the cookie holds no name.
C17_Witness ==
    /\ readyState = "OPEN"
    /\ sent = <<FrameData(sName, <<Str(sA)>>)>>
    /\ received = <<>>
    /\ cookie = Undefined

-----------------------------------------------------------------------------
(* The payloads handed to the transport (SpecTransport).                   *)

\* data decodes to a 3-element array of a non-empty string, an array and an
\* object.
WellShaped(data) ==
    LET r == JSONParse(data)
    IN  /\ r.ok
        /\ r.val.t = "array"
        /\ Len(r.val.v) = 3
        /\ r.val.v[1].t = "string" /\ r.val.v[1].v # <<>>
        /\ r.val.v[2].t = "array"
        /\ r.val.v[3].t = "object"

\* The array data decodes to has one argument and no keyword arguments.
OneArgument(data) ==
    LET x == JSONParse(data).val
    IN  Len(x.v[2].v) = 1 /\ x.v[3] = Obj(<<>>)

\* C16: every payload handed to socket.send, by the open handler or by a
\* submission in any state of the connection, decodes to a 3-element array
\* [name, args, kwargs] with name a non-empty string, args an array and kwargs an
\* object; a submission's payload has exactly one argument and empty kwargs.
C16_PayloadShape ==
    [][/\ sent' # sent => WellShaped(Last(sent'))
       /\ Submit => (WellShaped(onsubmit(input)) /\ OneArgument(onsubmit(input)))]_vars

\* The page loaded with the name a, announced it at the open and then sent the
\* command /a, whose one argument is absent.
C16_Witness ==
    /\ readyState = "OPEN"
    /\ cookie = Str(sA)
    /\ sent = <<FrameData(sName, <<Str(sA)>>), FrameData(sA, <<Undefined>>)>>

-----------------------------------------------------------------------------
(* The order of the transcript (SpecInbound).                              *)

\* The step appends one entry to the transcript and leaves the others in place.
EntryAdded ==
    /\ Len(output') = Len(output) + 1
    /\ SubSeq(output', 1, Len(output)) = output

\* The step runs functions.name to its end and writes nothing to the transcript.
NameHandled ==
    /\ Len(called') = Len(called) + 1
    /\ Last(called').key = sName
    /\ uncaught' = uncaught
    /\ output' = output

\* data decodes to a frame named "message".
MessageEvent(data) ==
    LET r == JSONParse(data)
    IN  r.ok /\ FrameName(r.val) = Str(sMessage)

\* C14: the transcript only grows at its end, one entry per event, so its
\* entries stand in the order of the events that wrote them; every inbound
\* frame has exactly one outcome, an entry or a handled name event, none being
\* dropped; and each message event adds exactly one entry, written by
\* functions.message.
C14_ArrivalOrder ==
    [][/\ output' # output => EntryAdded
       /\ Delivered => (EntryAdded \/ NameHandled)
       /\ (Delivered /\ MessageEvent(Last(received')))
            => (EntryAdded /\ MessageCalled)]_vars

\* C18 as claimed: an entry labelled <local> is written only by the open
\* handler, the close handler or the unrecognised-command diagnostic, never by
\* an inbound message event, whatever its name and text.
C18_LocalLabelIsLocal ==
    [][(EntryAdded /\ Last(output').h3 = sLocal)
        => (Opened \/ Closed \/ (Delivered /\ ~MessageCalled))]_vars

\* The name argument of the message event the step has run.
NameArgument == Index(GetProp(Last(called').obj, sArgs).val, 0)

\* C18 as amended: an entry labelled <local> is written by the open handler,
\* the close handler, the unrecognised-command diagnostic or an inbound message
\* event; a message event's entry is labelled <local> exactly when its name
\* argument is empty (absent, null, "", 0 or false) or is the text <local>
\* itself, and with the name otherwise.
C18_LocalLabelWhenNameless ==
    [][/\ (EntryAdded /\ Last(output').h3 = sLocal) => (Opened \/ Closed \/ Delivered)
       /\ (MessageCalled /\ EntryAdded) =>
            /\ Falsy(NameArgument) => Last(output').h3 = sLocal
            /\ ~Falsy(NameArgument) => Last(output').h3 = ToString(NameArgument)
            /\ Last(output').h3 = sLocal
                 <=> (Falsy(NameArgument) \/ ToString(NameArgument) = sLocal)]_vars

\* The peer has sent a message event with the empty name and the text b: its
\* entry carries the label <local>, as the Connected entry before it.
C18_Witness ==
    /\ readyState = "OPEN"
    /\ output = <<ConnectedEntry, [h3 |-> sLocal, p |-> sB]>>
    /\ Len(called) = 1
    /\ called[1].key = sMessage
    /\ Index(GetProp(called[1].obj, sArgs).val, 0) = Str(<<>>)

=============================================================================
